---- MODULE Spec2Model ----
(***************************************************************************)
(* Coordination core of the ROOcode orchestrator (src/orchestrator.py):    *)
(* the priority TaskQueue, the WorkflowState ledger and the Orchestrator's *)
(* dispatch and recovery loop; and the model catalog (src/models):         *)
(* ModelRegistry and ModelSelector.                                        *)
(*                                                                         *)
(* The specifications share the variables:                                 *)
(*   SpecTQ      drives TaskQueue alone (put / get / remove),              *)
(*   SpecWS      drives WorkflowState alone (create_workflow /             *)
(*               add_task_to_workflow / update_task_status),               *)
(*   Spec        drives the Orchestrator (submit_task, process_tasks),     *)
(*   SpecErr     adds the error loop and ErrorMessages put by others,      *)
(*   SpecOrphan  adds Tasks put on the queue outside any workflow,         *)
(*   SpecCb      adds registered callbacks, which may raise,               *)
(*   SpecRun     runs process_tasks on the jobs submitted before it,       *)
(*   SpecResp    adds the response loop and Responses put by others,       *)
(*   SpecSubmit  suspends submit_task at its awaits while the loop runs,   *)
(*   SpecMS      drives ModelRegistry and ModelSelector alone,             *)
(*   SpecExec    drives _execute_task, the registry and the config.        *)
(***************************************************************************)
EXTENDS Integers, Sequences, FiniteSets, TLC

(* ------------------------------ bounds --------------------------------- *)
\* task ids the model hands out (uuid4 values in the code)
MaxTasks == 3
\* workflow ids the model hands out
MaxWorkflows == 1
\* TaskQueue driven alone: number of put calls
MaxPuts == 4
\* WorkflowState driven alone: longest subtasks list
MaxSubtasks == 2
\* ErrorMessages a component other than _handle_error puts per task
MaxReports == 1
\* callbacks registered per event type
MaxCallbacks == 1
\* register_model calls made after construction
MaxRegistrations == 3
\* Responses other components send per task
MaxResponses == 1

(* --------------------------- program constants ------------------------- *)
\* Orchestrator.__init__: self.max_retries = 3
max_retries == 3

None == "None"
\* "no workflow": the value of a missing parent_id / task_to_workflow entry
NoWf == 0

TaskIds == 1..MaxTasks
WfIds == 1..MaxWorkflows

\* class Priority
Priority == {"high", "medium", "low"}
\* Message.priority default
DefaultPriority == "medium"

\* the order TaskQueue.get scans the tiers in
ScanOrder_Reversed == <<"low", "medium", "high">>
ScanOrder == <<"high", "medium", "low">>

\* rank of a tier, HIGH first (used by the claims, not by the queue)
Rank(p) == CASE p = "high" -> 0 [] p = "medium" -> 1 [] p = "low" -> 2

(* ------------------------------- Task ---------------------------------- *)
\* Task.__init__: content.task_id, content.task_type, content.payload,
\* content.parent_id (absent = NoWf), Message.priority.  obj tells apart
\* the Task objects built for the same task id (0 = the object built by
\* submit_task, k = the object built by the k-th retry).
Task(task_id, task_type, payload, parent_id, priority, obj) ==
    [task_id |-> task_id, task_type |-> task_type, payload |-> payload,
     parent_id |-> parent_id, priority |-> priority, obj |-> obj]

(* ----------------------------- TaskQueue ------------------------------- *)
VARIABLES
    queues,        \* TaskQueue._queues: tier -> FIFO sequence of Task
    task_lookup,   \* TaskQueue._task_lookup: task id -> tier, None (marked
                   \*   removed) or "absent" (no entry)
    tq_pending,    \* history: the Task objects put and not yet returned
    tq_puts,       \* history: number of put calls so far
    tq_last,       \* history: the last TaskQueue call and what it returned
    tq_removed     \* history: the pending Task objects whose id a remove
                   \*   call that returned True was given

\* TaskQueue.put, the _queues part
put_queues_AtFront(qs, task) ==
    [qs EXCEPT ![task.priority] = <<task>> \o @]
put_queues(qs, task) == [qs EXCEPT ![task.priority] = Append(@, task)]
\* TaskQueue.put, the _task_lookup part
put_lookup(lk, task) == [lk EXCEPT ![task.task_id] = task.priority]

\* TaskQueue.get: the first tier, in scan order from position i, that is
\* not empty; None when there is none
RECURSIVE get_tier(_, _)
get_tier(qs, i) ==
    IF i > Len(ScanOrder) THEN None
    ELSE IF qs[ScanOrder[i]] # <<>> THEN ScanOrder[i]
    ELSE get_tier(qs, i + 1)

\* asyncio.Queue.get on a tier: the oldest element
queue_get(q) == Head(q)

\* asyncio.Queue after get: the element returned is gone
queue_after_get(q) == Tail(q)

\* TaskQueue.empty
empty(qs) == \A p \in Priority : qs[p] = <<>>

\* TaskQueue.get_task_count
get_task_count(qs) == [p \in Priority |-> Len(qs[p])]

NoTask == Task(0, None, None, NoWf, DefaultPriority, 0)

\* TaskQueue.get: the Task returned (NoTask stands for None)
get_task(qs) ==
    IF get_tier(qs, 1) = None THEN NoTask ELSE queue_get(qs[get_tier(qs, 1)])
\* TaskQueue.get: _queues afterwards
get_queues(qs) ==
    IF get_tier(qs, 1) = None THEN qs
    ELSE [qs EXCEPT ![get_tier(qs, 1)] = queue_after_get(@)]
\* TaskQueue.get: _task_lookup afterwards (the entry of the returned id is
\* deleted, whatever it holds)
get_lookup(qs, lk) ==
    IF get_tier(qs, 1) = None THEN lk
    ELSE [lk EXCEPT ![get_task(qs).task_id] = "absent"]

\* TaskQueue.remove: the value returned
remove_result(lk, task_id) == lk[task_id] # "absent"
\* TaskQueue.remove: _task_lookup afterwards
remove_lookup(lk, task_id) ==
    IF lk[task_id] = "absent" THEN lk ELSE [lk EXCEPT ![task_id] = None]

(* --------------------------- WorkflowState ----------------------------- *)
VARIABLES
    workflows,         \* WorkflowState._workflows: workflow id -> record
    task_to_workflow,  \* WorkflowState._task_to_workflow: task id -> workflow
                       \*   id, NoWf when the task id is no key
    ws_last            \* history: the last WorkflowState call, the arguments
                       \*   it was given and whether it raised

\* class TaskStatus, the values a workflow status takes
SUBMITTED == "submitted"
IN_PROGRESS == "in_progress"
COMPLETED == "completed"
FAILED == "failed"

\* The result dicts the code passes around, by shape:
\*   completed_result  {"status": "completed", ...}   a worker's success
\*   failed_result     {"status": "failed", "error": ...}  a worker's
\*                     returned failure (architect.py:121-126)
\*   error_result      {"error": msg}                 built by _handle_error
\*   empty_result      {}
\*   None              the default of update_task_status's result parameter
Results == {"completed_result", "failed_result", "error_result", "empty_result"}

\* Python truth of a result: `if result:` is false for None and for {}
truthy(result) == result \notin {None, "empty_result"}

\* result.get("status")
result_status(result) ==
    CASE result = "completed_result" -> "completed"
      [] result = "failed_result" -> "failed"
      [] OTHER -> None

\* the metadata of a workflow: the caller's dict (`metadata or {}`), which
\* _apply_recovery_strategy reads task_type and payload from and writes
\* retry_count into.  retry_count[t] = 0 stands for a missing entry, which
\* the code reads as 0 (`.get(task_id, 0)`).
Metadata(task_type, payload) ==
    [task_type |-> task_type, payload |-> payload,
     retry_count |-> [t \in TaskIds |-> 0]]

\* WorkflowState.create_workflow: the record of a new workflow
new_workflow(metadata) ==
    [status |-> SUBMITTED, subtasks |-> <<>>,
     results |-> [t \in TaskIds |-> "absent"], metadata |-> metadata]

\* WorkflowState.create_workflow: raises when the id exists
create_workflow_raises(wfs, workflow_id) == workflow_id \in DOMAIN wfs
create_workflow_Overwrite(wfs, workflow_id, metadata) ==
    [w \in DOMAIN wfs \cup {workflow_id} |->
        IF w = workflow_id THEN new_workflow(metadata) ELSE wfs[w]]
create_workflow(wfs, workflow_id, metadata) ==
    IF create_workflow_raises(wfs, workflow_id) THEN wfs
    ELSE wfs @@ (workflow_id :> new_workflow(metadata))

\* WorkflowState.add_task_to_workflow: raises when the workflow is unknown
add_task_raises(wfs, workflow_id) == workflow_id \notin DOMAIN wfs
add_task_workflows_Skip(wfs, workflow_id, task_id) == wfs
add_task_workflows(wfs, workflow_id, task_id) ==
    IF add_task_raises(wfs, workflow_id) THEN wfs
    ELSE [wfs EXCEPT ![workflow_id].subtasks = Append(@, task_id)]
add_task_mapping_Unmapped(wfs, t2w, workflow_id, task_id) == t2w
add_task_mapping(wfs, t2w, workflow_id, task_id) ==
    IF add_task_raises(wfs, workflow_id) THEN t2w
    ELSE [t2w EXCEPT ![task_id] = workflow_id]

\* the ids of a subtasks list
SubtaskSet(wf) == {wf.subtasks[i] : i \in 1..Len(wf.subtasks)}

\* WorkflowState._all_subtasks_complete
all_subtasks_complete_SomeResult(wf) ==
    \E t \in SubtaskSet(wf) : wf.results[t] # "absent"
all_subtasks_complete(wf) ==
    \A t \in SubtaskSet(wf) : wf.results[t] # "absent"

\* WorkflowState._all_subtasks_successful
all_subtasks_successful_WrongValue(wf) ==
    \A t \in SubtaskSet(wf) : result_status(wf.results[t]) = "success"
all_subtasks_successful(wf) ==
    \A t \in SubtaskSet(wf) : result_status(wf.results[t]) = "completed"

\* WorkflowState.update_task_status, the part that stores the result
store_result(wfs, workflow_id, task_id, result) ==
    IF truthy(result) THEN [wfs EXCEPT ![workflow_id].results[task_id] = result]
    ELSE wfs

\* WorkflowState.update_task_status, the part that recomputes the status
recompute_status(wfs, workflow_id) ==
    IF all_subtasks_complete(wfs[workflow_id])
    THEN [wfs EXCEPT ![workflow_id].status =
            IF all_subtasks_successful(wfs[workflow_id])
            THEN COMPLETED ELSE FAILED]
    ELSE wfs

\* WorkflowState.update_task_status (its status parameter is never read)
update_task_status_NoLookup(wfs, t2w, task_id, result) ==
    [w \in DOMAIN wfs |->
        recompute_status(store_result(wfs, w, task_id, result), w)[w]]
update_task_status(wfs, t2w, task_id, result) ==
    IF t2w[task_id] = NoWf THEN wfs
    ELSE recompute_status(
            store_result(wfs, t2w[task_id], task_id, result), t2w[task_id])

\* WorkflowState.get_task_workflow
get_task_workflow(t2w, task_id) == t2w[task_id]

(* ---------------------------- Orchestrator ----------------------------- *)
VARIABLES
    agents,        \* Orchestrator.agents: agent type -> registered or not (None)
    error_queue,   \* Orchestrator.error_queue: the ErrorMessages put
    response_queue,\* Orchestrator.response_queue: the Responses put and not
                   \*   yet handled
    submitting,    \* the submit_task coroutine suspended in its await of
                   \*   task_queue.put: the workflow, the subtask and the
                   \*   priority, or NoSubmit
    next_task,     \* the next task id uuid4 hands out
    next_wf,       \* the next workflow id uuid4 hands out
    inflight,      \* the Tasks whose agent.execute_task has not returned yet
    last,          \* history: what the last handler did
    hist,          \* history per task id: the priority it was submitted at,
                   \*   how many dispatches, successes, re-enqueues and
                   \*   decompose/escalate decisions it has had, how many
                   \*   ErrorMessages and Responses other components sent for it,
                   \*   whether a CRITICAL one was handled and the
                   \*   re-enqueues since
    job_kind,      \* history per workflow id: the task_type it was submitted with
    callbacks,     \* Orchestrator.callbacks: event type -> list of callbacks,
                   \*   each by what a call of it does: "returns" or "raises"
    loop           \* the _process_task_loop coroutine: "running", or
                   \*   "terminated" once an exception has left process_tasks

\* ModelRegistry and the history of the calls made on it and on ModelSelector
VARIABLES
    models,          \* ModelRegistry.models: the dict, as the sequence of its
                     \*   (name, info) items in insertion order
    default_model,   \* ModelRegistry.default_model
    config_default,  \* config.config["model"]["default"]
    auto_select,     \* config.config["model"]["auto_select"]
    registrations,   \* history: register_model calls made after construction
    ms_last          \* history: the last registry / selector call, what it
                     \*   was given, what it returned and the state before

reg_vars == <<models, default_model, config_default, auto_select, registrations,
             ms_last>>

vars == <<queues, task_lookup, tq_pending, tq_puts, tq_last, tq_removed,
          workflows, task_to_workflow, ws_last,
          agents, error_queue, response_queue, submitting, next_task, next_wf,
          inflight, last, hist, job_kind, callbacks, loop,
          models, default_model, config_default, auto_select, registrations,
          ms_last>>
tq_vars == <<queues, task_lookup, tq_pending, tq_puts, tq_last, tq_removed>>
ws_vars == <<workflows, task_to_workflow, ws_last>>
orch_vars == <<agents, error_queue, response_queue, submitting, next_task, next_wf,
               inflight, last, hist, job_kind, callbacks, loop>>

\* the keys Orchestrator.__init__ gives self.callbacks
CallbackEvents == {"on_task_complete", "on_task_failed", "on_workflow_complete",
                   "on_workflow_failed", "on_error"}

\* `for callback in self.callbacks[event]: callback(...)` raises: some
\* callback of the list does
callbacks_raise(cbs, event) ==
    \E i \in 1..Len(cbs[event]) : cbs[event][i] = "raises"

\* the keys Orchestrator.__init__ gives self.agents
AgentTypes == {"architect", "coder", "debugger"}

\* Orchestrator._determine_agent_type: task_to_agent_mapping.get(task_type)
determine_agent_type(task_type) ==
    CASE task_type \in {"system_design", "component_design",
                        "interface_design", "analyze_requirements"} -> "architect"
      [] task_type \in {"implement_component", "implement_interface",
                        "refactor_code", "fix_bug"} -> "coder"
      [] task_type \in {"test_component", "validate_interface",
                        "performance_test"} -> "debugger"
      [] OTHER -> None

\* process_tasks, line 562: no agent can take the task
no_agent_OnlyUnmapped(ags, task_type) == determine_agent_type(task_type) = None
no_agent(ags, task_type) ==
    \/ determine_agent_type(task_type) = None
    \/ determine_agent_type(task_type) \notin DOMAIN ags
    \/ ~ags[determine_agent_type(task_type)]

\* Orchestrator._break_down_task: the subtask descriptions, in order
break_down_task(task_type) ==
    IF task_type = "implement_system"
    THEN << [task_type |-> "system_design", payload |-> "design_payload"],
            [task_type |-> "implement_component", payload |-> "implement_payload"],
            [task_type |-> "test_component", payload |-> "test_payload"] >>
    ELSE << [task_type |-> task_type, payload |-> "job_payload"] >>

\* Orchestrator._break_down_task: the keys of the job description whose
\* values a subtask payload holds.  The design payload is built from
\* task_description's requirements and constraints, the implement and test
\* payloads from "main" and its requirements, and the single subtask of
\* another kind holds task_description's payload itself.
payload_inherits(payload) ==
    CASE payload = "design_payload" -> {"requirements", "constraints"}
      [] payload = "implement_payload" -> {"requirements"}
      [] payload = "test_payload" -> {"requirements"}
      [] payload = "job_payload" -> {"payload"}
      [] OTHER -> {}

\* class ErrorSeverity
ErrorSeverity == {"critical", "warning", "info"}

\* ErrorMessage built by _handle_error
ErrorMessage(task_id, severity) == [task_id |-> task_id, severity |-> severity]

\* Orchestrator._handle_error_message: the callbacks it fires and whether
\* it takes the CRITICAL branch, which logs "escalating" and changes no
\* state ("Implement escalation logic here")
handle_error_message(error, t2w) ==
    [fired |-> << <<"on_error", error.task_id>> >>,
     critical_logged |-> /\ error.severity = "critical"
                         /\ get_task_workflow(t2w, error.task_id) # NoWf]

\* Orchestrator._determine_recovery_strategy
determine_recovery_strategy_OneMore(wfs, t2w, task_id) ==
    IF get_task_workflow(t2w, task_id) = NoWf THEN "escalate"
    ELSE IF wfs[t2w[task_id]].metadata.retry_count[task_id] > max_retries
         THEN "decompose"
         ELSE "retry"
determine_recovery_strategy(wfs, t2w, task_id) ==
    IF get_task_workflow(t2w, task_id) = NoWf THEN "escalate"
    ELSE IF wfs[t2w[task_id]].metadata.retry_count[task_id] >= max_retries
         THEN "decompose"
         ELSE "retry"

\* _apply_recovery_strategy, RETRY: the Task it rebuilds from the
\* workflow's metadata (no priority is passed: Message's default applies)
retry_task(wfs, workflow_id, task_id) ==
    LET md == wfs[workflow_id].metadata IN
    Task(task_id,
         IF md.task_type = "absent" THEN "unknown" ELSE md.task_type,
         IF md.payload = "absent" THEN "empty_payload" ELSE md.payload,
         workflow_id, DefaultPriority, md.retry_count[task_id] + 1)

\* Orchestrator._apply_recovery_strategy: workflows and queue afterwards and
\* the Tasks it re-enqueued
apply_recovery_strategy(wfs, t2w, qs, lk, task_id, strategy) ==
    LET w == get_task_workflow(t2w, task_id)
        same == [workflows |-> wfs, queues |-> qs, task_lookup |-> lk,
                 requeued |-> <<>>]
    IN  IF w = NoWf THEN same
        ELSE IF strategy = "retry"
        THEN LET original == IF task_id \in SubtaskSet(wfs[w])
                             THEN <<retry_task(wfs, w, task_id)>> ELSE <<>>
                 counted == [wfs EXCEPT ![w].metadata.retry_count[task_id] = @ + 1]
             IN  IF original = <<>>
                 THEN [same EXCEPT !.workflows = counted]
                 ELSE [workflows |-> counted,
                       queues |-> put_queues(qs, original[1]),
                       task_lookup |-> put_lookup(lk, original[1]),
                       requeued |-> original]
        ELSE same

\* what a handler leaves behind: the state, the callback lists it went
\* through, the result it recorded, the strategy it chose, the Tasks it
\* re-enqueued and whether it ended by an exception
Effect(wfs, qs, lk, eq, fired, recorded, strategy, requeued, raised) ==
    [workflows |-> wfs, queues |-> qs, task_lookup |-> lk, error_queue |-> eq,
     fired |-> fired, recorded |-> recorded, strategy |-> strategy,
     requeued |-> requeued, raised |-> raised]

\* Orchestrator._handle_error (a raising on_task_failed callback ends it
\* before the recovery strategy is determined)
handle_error(task, wfs, t2w, qs, lk, eq, cbs) ==
    IF task.parent_id = NoWf
    THEN Effect(wfs, qs, lk, eq, <<>>, None, None, <<>>, FALSE)
    ELSE LET tid == task.task_id
             recorded == update_task_status(wfs, t2w, tid, "error_result")
             strategy == determine_recovery_strategy(recorded, t2w, tid)
             rec == apply_recovery_strategy(recorded, t2w, qs, lk, tid, strategy)
         IN  IF callbacks_raise(cbs, "on_task_failed")
             THEN Effect(recorded, qs, lk,
                         Append(eq, ErrorMessage(tid, "warning")),
                         << <<"on_task_failed", tid>> >>, "error_result",
                         None, <<>>, TRUE)
             ELSE Effect(rec.workflows, rec.queues, rec.task_lookup,
                         Append(eq, ErrorMessage(tid, "warning")),
                         << <<"on_task_failed", tid>> >>, "error_result",
                         strategy, rec.requeued, FALSE)

\* Orchestrator._handle_result (a raising callback ends it)
handle_result(task, result, wfs, t2w, qs, lk, eq, cbs) ==
    IF task.parent_id = NoWf
    THEN Effect(wfs, qs, lk, eq, <<>>, None, None, <<>>, FALSE)
    ELSE LET tid == task.task_id
             recorded == update_task_status(wfs, t2w, tid, result)
         IN  IF callbacks_raise(cbs, "on_task_complete")
             THEN Effect(recorded, qs, lk, eq, << <<"on_task_complete", tid>> >>,
                         result, None, <<>>, TRUE)
             ELSE Effect(recorded, qs, lk, eq,
                         << <<"on_task_complete", tid>> >> \o
                         (IF recorded[task.parent_id].status = COMPLETED
                          THEN << <<"on_workflow_complete", task.parent_id>> >>
                          ELSE <<>>),
                         result, None, <<>>,
                         /\ recorded[task.parent_id].status = COMPLETED
                         /\ callbacks_raise(cbs, "on_workflow_complete"))

\* process_tasks, lines 567-574: _handle_result inside the try, and
\* _handle_error in the except clause when _handle_result raised
try_handle_result(task, result, wfs, t2w, qs, lk, eq, cbs) ==
    LET tried == handle_result(task, result, wfs, t2w, qs, lk, eq, cbs)
        caught == handle_error(task, tried.workflows, t2w, tried.queues,
                               tried.task_lookup, tried.error_queue, cbs)
    IN  IF tried.raised
        THEN [caught EXCEPT !.fired = tried.fired \o @]
        ELSE tried

\* class Response: content.task_id, content.status and content.result
\* (`result or {}`: no result is the empty dict)
Response(task_id, status, result) ==
    [task_id |-> task_id, status |-> status,
     result |-> IF result = None THEN "empty_result" ELSE result]

\* Orchestrator._handle_response: "completed" records the result and goes
\* through on_task_complete; "failed" records it, goes through
\* on_task_failed and applies the recovery strategy; any other status, and
\* a task id of no workflow, changes nothing
handle_response(response, wfs, t2w, qs, lk, eq, cbs) ==
    LET tid == response.task_id
        recorded == update_task_status(wfs, t2w, tid, response.result)
        strategy == determine_recovery_strategy(recorded, t2w, tid)
        rec == apply_recovery_strategy(recorded, t2w, qs, lk, tid, strategy)
    IN  IF get_task_workflow(t2w, tid) = NoWf
        THEN Effect(wfs, qs, lk, eq, <<>>, None, None, <<>>, FALSE)
        ELSE IF response.status = "completed"
        THEN Effect(recorded, qs, lk, eq, << <<"on_task_complete", tid>> >>,
                    response.result, None, <<>>,
                    callbacks_raise(cbs, "on_task_complete"))
        ELSE IF response.status = "failed"
        THEN IF callbacks_raise(cbs, "on_task_failed")
             THEN Effect(recorded, qs, lk, eq, << <<"on_task_failed", tid>> >>,
                         response.result, None, <<>>, TRUE)
             ELSE Effect(rec.workflows, rec.queues, rec.task_lookup, eq,
                         << <<"on_task_failed", tid>> >>, response.result,
                         strategy, rec.requeued, FALSE)
        ELSE Effect(wfs, qs, lk, eq, <<>>, None, None, <<>>, FALSE)

(* ---------------------------- ModelRegistry ----------------------------- *)
\* A model_info dict, by the keys the selector reads.  empty tells the
\* dict {} apart (the only falsy dict); capabilities is the set of the
\* "capabilities" list; performance maps the metrics present to their
\* score in hundredths; output_tokens is cost["output_tokens"] in units of
\* 0.00000001; a missing key holds the default the selector's .get gives it.
ModelInfo(provider, size, capabilities, performance, output_tokens) ==
    [empty |-> FALSE, provider |-> provider, size |-> size,
     capabilities |-> capabilities, performance |-> performance,
     output_tokens |-> output_tokens]
\* the dict {}
EmptyInfo ==
    [empty |-> TRUE, provider |-> "", size |-> None, capabilities |-> {},
     performance |-> [m \in {} |-> 0], output_tokens |-> 0]

\* a "performance" dict with the four metrics _register_default_models gives
Performance(reasoning, code_generation, system_design, debugging) ==
    [m \in {"reasoning", "code_generation", "system_design", "debugging"} |->
        CASE m = "reasoning" -> reasoning
          [] m = "code_generation" -> code_generation
          [] m = "system_design" -> system_design
          [] m = "debugging" -> debugging]

\* the capabilities of claude-3-sonnet; the other defaults are listed
\* relative to it
SonnetCapabilities ==
    {"natural_language_understanding", "code_generation", "reasoning",
     "instruction_following", "system_design", "debugging"}

\* ModelRegistry._register_default_models: the dict it leaves
DefaultModels ==
    << [name |-> "claude-3-sonnet",
        info |-> ModelInfo("ChatLLM", "Sonnet", SonnetCapabilities,
                           Performance(90, 85, 90, 80), 1550)],
       [name |-> "claude-3-opus",
        info |-> ModelInfo("ChatLLM", "Opus",
                           SonnetCapabilities \cup {"complex_reasoning"},
                           Performance(95, 90, 95, 90), 7500)],
       [name |-> "claude-3-haiku",
        info |-> ModelInfo("ChatLLM", "Haiku",
                           SonnetCapabilities \ {"system_design", "debugging"},
                           Performance(80, 75, 70, 65), 125)],
       [name |-> "gpt-4",
        info |-> ModelInfo("ChatLLM", None,
                           SonnetCapabilities \cup {"complex_reasoning"},
                           Performance(95, 90, 95, 90), 6000)],
       [name |-> "gpt-4-turbo",
        info |-> ModelInfo("ChatLLM", "Turbo",
                           SonnetCapabilities \cup {"complex_reasoning"},
                           Performance(95, 90, 95, 90), 3000)] >>

\* `model_name in self.models`
registered(ms, model_name) == \E i \in 1..Len(ms) : ms[i].name = model_name
\* the position of a registered name in the dict
position(ms, model_name) == CHOOSE i \in 1..Len(ms) : ms[i].name = model_name

\* ModelRegistry.get_model, for a registered name (None otherwise)
get_model(ms, model_name) == ms[position(ms, model_name)].info

\* ModelRegistry.register_model: a new key goes last, a known key keeps
\* its place and gets the new info
register_model(ms, model_name, model_info) ==
    IF registered(ms, model_name)
    THEN [ms EXCEPT ![position(ms, model_name)].info = model_info]
    ELSE Append(ms, [name |-> model_name, info |-> model_info])

\* ModelRegistry.list_models
list_models(ms) == [i \in 1..Len(ms) |-> ms[i].name]

\* ModelRegistry.set_default_model: the value returned
set_default_model_result(ms, model_name) == registered(ms, model_name)
\* ModelRegistry.set_default_model: default_model afterwards
set_default_model_pointer_Unchecked(ms, current, model_name) == model_name
set_default_model_pointer(ms, current, model_name) ==
    IF registered(ms, model_name) THEN model_name ELSE current
\* Orchestrator.set_default_model: config "model.default" afterwards
set_default_model_config(ms, current, model_name) ==
    IF set_default_model_result(ms, model_name) THEN model_name ELSE current

(* ---------------------------- ModelSelector ----------------------------- *)
\* A task description, by the keys select_model reads: model ("absent"
\* when the key is missing), task_type, requirements and constraints (lists
\* of texts).
TaskDescription(model, task_type, requirements, constraints) ==
    [model |-> model, task_type |-> task_type, requirements |-> requirements,
     constraints |-> constraints]

\* text.lower(): which of the substrings the selector looks for
\* ("complex", "reasoning", "optimize", "performance", "security",
\* "low cost", "budget", "high performance", "provider:") the lower-cased
\* text contains
lower_contains(text) ==
    CASE text = "Complex reasoning" -> {"complex", "reasoning"}
      [] text = "Low cost" -> {"low cost"}
      [] text = "High Performance" -> {"high performance", "performance"}
      [] text = "provider:Google" -> {"provider:"}
      [] OTHER -> {}
\* constraint_lower.split("provider:")[1].strip()
provider_named(text) ==
    CASE text = "provider:Google" -> "google"
      [] OTHER -> ""
\* model_info.get("provider", "").lower()
provider_lower(provider) ==
    CASE provider = "ChatLLM" -> "chatllm"
      [] provider = "Google" -> "google"
      [] OTHER -> provider

\* `if self.model_registry.get_model(requested_model):` a registered name
\* whose info dict is truthy
requested_model_found(ms, model_name) ==
    registered(ms, model_name) /\ ~get_model(ms, model_name).empty

\* _determine_required_capabilities: task_capability_map.get(task_type, ...)
base_capabilities(task_type) ==
    CASE task_type \in {"system_design", "component_design", "interface_design"} ->
            {"natural_language_understanding", "reasoning", "system_design"}
      [] task_type = "analyze_requirements" ->
            {"natural_language_understanding", "reasoning"}
      [] task_type \in {"implement_component", "implement_interface",
                        "refactor_code"} ->
            {"natural_language_understanding", "code_generation"}
      [] task_type \in {"fix_bug", "test_component", "validate_interface",
                        "performance_test"} ->
            {"natural_language_understanding", "code_generation", "debugging"}
      [] OTHER -> {"natural_language_understanding", "instruction_following"}
\* _determine_required_capabilities: what one requirement appends
requirement_capabilities(requirement) ==
    (IF {"complex", "reasoning"} \subseteq lower_contains(requirement)
     THEN {"complex_reasoning"} ELSE {})
    \cup (IF lower_contains(requirement)
              \cap {"optimize", "performance", "security"} # {}
          THEN {"debugging"} ELSE {})
\* ModelSelector._determine_required_capabilities
determine_required_capabilities(task_type, requirements) ==
    base_capabilities(task_type)
    \cup UNION {requirement_capabilities(requirements[i]) :
                   i \in 1..Len(requirements)}

\* ModelSelector._find_candidate_models
find_candidate_models_All(ms, required_capabilities) == list_models(ms)
find_candidate_models(ms, required_capabilities) ==
    LET has_all(model_name) ==
            required_capabilities \subseteq get_model(ms, model_name).capabilities
    IN  SelectSeq(list_models(ms), has_all)

\* _apply_constraints: the cost above which "low cost" / "budget" excludes
\* a model (0.00003) and the mean score under which "high performance"
\* does (0.85), in the units of ModelInfo
CostLimit == 3000
PerformanceLimit == 85

RECURSIVE sum_values(_, _)
\* sum(performance.values()), over the keys in S
sum_values(performance, S) ==
    IF S = {} THEN 0
    ELSE LET m == CHOOSE x \in S : TRUE
         IN  performance[m] + sum_values(performance, S \ {m})

\* _apply_constraints: one model against one constraint
satisfies_constraint(model_info, constraint) ==
    LET found == lower_contains(constraint)
        metrics == DOMAIN model_info.performance
    IN  /\ found \cap {"low cost", "budget"} # {}
             => ~(model_info.output_tokens > CostLimit)
        /\ "high performance" \in found
             => ~(\/ metrics = {}
                  \/ sum_values(model_info.performance, metrics)
                        < PerformanceLimit * Cardinality(metrics))
        /\ "provider:" \in found
             => provider_lower(model_info.provider) = provider_named(constraint)

\* ModelSelector._apply_constraints
apply_constraints(ms, candidate_models, constraints) ==
    LET satisfies_constraints(model_name) ==
            \A i \in 1..Len(constraints) :
                satisfies_constraint(get_model(ms, model_name), constraints[i])
    IN  IF constraints = <<>> THEN candidate_models
        ELSE SelectSeq(candidate_models, satisfies_constraints)

\* select_model, lines 77-80: with nothing left after the constraints the
\* unfiltered candidates are kept
keep_candidates_NoFallback(candidate_models, filtered_candidates) ==
    filtered_candidates
keep_candidates(candidate_models, filtered_candidates) ==
    IF filtered_candidates = <<>> THEN candidate_models ELSE filtered_candidates

\* _rank_models: task_metric_map.get(task_type, ["reasoning"])
relevant_metrics(task_type) ==
    CASE task_type \in {"system_design", "component_design", "interface_design"} ->
            <<"system_design", "reasoning">>
      [] task_type = "analyze_requirements" -> <<"reasoning">>
      [] task_type \in {"implement_component", "implement_interface",
                        "refactor_code"} -> <<"code_generation">>
      [] task_type \in {"fix_bug", "test_component", "validate_interface"} ->
            <<"debugging", "code_generation">>
      [] task_type = "performance_test" -> <<"debugging">>
      [] OTHER -> <<"reasoning">>

\* performance.get(metric, 0)
performance_get(model_info, metric) ==
    IF metric \in DOMAIN model_info.performance
    THEN model_info.performance[metric] ELSE 0

RECURSIVE sum_metric_scores(_, _, _)
\* sum(metric_scores), from metric i on
sum_metric_scores(model_info, metrics, i) ==
    IF i > Len(metrics) THEN 0
    ELSE performance_get(model_info, metrics[i])
         + sum_metric_scores(model_info, metrics, i + 1)

\* _rank_models: size_factor, in tenths
size_factor(model_info) ==
    CASE model_info.size = "Opus" -> 9
      [] model_info.size = "Haiku" -> 11
      [] OTHER -> 10

\* _rank_models: final_score = avg_performance * size_factor, as an exact
\* number in units of 1/2000 (the metric lists have 1 or 2 entries)
final_score(model_info, task_type) ==
    LET metrics == relevant_metrics(task_type)
    IN  ((sum_metric_scores(model_info, metrics, 1) * 2) \div Len(metrics))
        * size_factor(model_info)

RECURSIVE rank_models(_, _, _)
\* ModelSelector._rank_models: list.sort by score, reverse=True, which is
\* stable (equal scores keep the order of the candidates)
rank_models(ms, candidate_models, task_type) ==
    IF candidate_models = <<>> THEN <<>>
    ELSE LET score(i) == final_score(get_model(ms, candidate_models[i]), task_type)
             first == CHOOSE i \in 1..Len(candidate_models) :
                        /\ \A j \in 1..Len(candidate_models) : score(j) <= score(i)
                        /\ \A j \in 1..(i - 1) : score(j) < score(i)
         IN  <<candidate_models[first]>> \o
             rank_models(ms,
                         SubSeq(candidate_models, 1, first - 1) \o
                         SubSeq(candidate_models, first + 1, Len(candidate_models)),
                         task_type)

\* ModelSelector.select_model
select_model(ms, default, task) ==
    IF task.model # "absent" /\ requested_model_found(ms, task.model)
    THEN task.model
    ELSE LET required_capabilities ==
                determine_required_capabilities(task.task_type, task.requirements)
             candidate_models == find_candidate_models(ms, required_capabilities)
             filtered_candidates ==
                keep_candidates(candidate_models,
                                apply_constraints(ms, candidate_models,
                                                  task.constraints))
             ranked_models == rank_models(ms, filtered_candidates, task.task_type)
         IN  IF candidate_models = <<>> THEN default
             ELSE IF ranked_models = <<>> THEN default
             ELSE ranked_models[1]

\* Config._set_nested_value: the value stored for a text; "true" and
\* "false" in any case become the booleans, other texts stay texts
set_nested_value(text) ==
    CASE text \in {"True", "true"} -> TRUE
      [] text \in {"False", "false"} -> FALSE

\* Orchestrator._execute_task, lines 627-636: the task description handed
\* to the selector; "model" is copied from task.content, not from the
\* payload
execute_task_dict(content_model, task_type, requirements, constraints) ==
    TaskDescription(content_model, task_type, requirements, constraints)

\* Orchestrator._execute_task, lines 638-642: the model chosen
execute_task_selected(ms, default, auto, task_dict) ==
    IF auto THEN select_model(ms, default, task_dict) ELSE default

\* Orchestrator._execute_task, line 648: payload["model"] afterwards
stamp_model_KeepEarlier(payload_model, selected_model) ==
    IF payload_model = "absent" THEN selected_model ELSE payload_model
stamp_model(payload_model, selected_model) == selected_model

(* ------------------------------ initial state -------------------------- *)
NoCall ==
    [op |-> "none", task |-> NoTask, before |-> {}, removed |-> {}, ret |-> FALSE]
NoHandler ==
    [op |-> "none", task |-> NoTask, outcome |-> None, invoked |-> FALSE,
     fired |-> <<>>, recorded |-> None, strategy |-> None, requeued |-> <<>>]
\* no submit_task is suspended
NoSubmit == [workflow_id |-> NoWf, first |-> 0, i |-> 0, priority |-> DefaultPriority]
NoHistory ==
    [priority |-> None, dispatches |-> 0, successes |-> 0, requeued |-> 0,
     decisions |-> 0, reports |-> 0, critical |-> FALSE, after_critical |-> 0,
     responses |-> 0]

\* config.py, line 39: the shipped value of "model.default", which
\* Orchestrator.__init__ passes to ModelRegistry
ConfiguredDefault == "Claude-3.7-Sonnet"
\* ModelRegistry.__init__: the default of its default_model parameter
RegistryDefault == "claude-3-sonnet"

NoTaskDescription == TaskDescription("absent", "", <<>>, <<>>)
NoBefore == [models |-> <<>>, default_model |-> "", config_default |-> ""]
\* a WorkflowState call: the operation, its arguments and whether it raised
WSCall(op, workflow_id, task_id, result, raised) ==
    [op |-> op, workflow_id |-> workflow_id, task_id |-> task_id,
     result |-> result, raised |-> raised]
NoWSCall == WSCall("none", NoWf, 0, None, FALSE)
NoSelect ==
    [op |-> "none", name |-> "", task |-> NoTaskDescription, selected |-> "",
     ok |-> FALSE, before |-> NoBefore, payload_model |-> "absent",
     executed |-> "absent"]

\* ModelRegistry.__init__(default_model): the name is stored unchecked
construct_registry(default) ==
    /\ models = DefaultModels
    /\ default_model = default
    /\ config_default = ConfiguredDefault
    /\ auto_select = TRUE
    /\ registrations = 0
    /\ ms_last = NoSelect

\* TaskQueue(), WorkflowState() and the Orchestrator's own fields
InitOrchestrator ==
    /\ queues = [p \in Priority |-> <<>>]
    /\ task_lookup = [t \in TaskIds |-> "absent"]
    /\ tq_pending = {}
    /\ tq_puts = 0
    /\ tq_last = NoCall
    /\ tq_removed = {}
    /\ workflows = [w \in {} |-> new_workflow(Metadata("absent", "absent"))]
    /\ task_to_workflow = [t \in TaskIds |-> NoWf]
    /\ ws_last = NoWSCall
    /\ agents = [a \in AgentTypes |-> FALSE]
    /\ error_queue = <<>>
    /\ response_queue = <<>>
    /\ submitting = NoSubmit
    /\ next_task = 1
    /\ next_wf = 1
    /\ inflight = <<>>
    /\ last = NoHandler
    /\ hist = [t \in TaskIds |-> NoHistory]
    /\ job_kind = [w \in WfIds |-> None]
    /\ callbacks = [e \in CallbackEvents |-> <<>>]
    /\ loop = "running"

\* Orchestrator()
Init == InitOrchestrator /\ construct_registry(ConfiguredDefault)

(* ------------------------ TaskQueue driven alone ------------------------ *)
\* the ids and kinds of the Tasks the callers put
TQTaskIds == {1, 2}

\* await task_queue.put(task)
TQ_put ==
    /\ tq_puts < MaxPuts
    /\ \E tid \in TQTaskIds, p \in Priority :
         LET task == Task(tid, "unknown", "job_payload", NoWf, p, tq_puts + 1) IN
         /\ queues' = put_queues(queues, task)
         /\ task_lookup' = put_lookup(task_lookup, task)
         /\ tq_pending' = tq_pending \cup {task}
         /\ tq_puts' = tq_puts + 1
         /\ tq_last' = [op |-> "put", task |-> task, before |-> tq_pending,
                        removed |-> tq_removed, ret |-> FALSE]
    /\ UNCHANGED <<tq_removed, ws_vars, orch_vars, reg_vars>>

\* await task_queue.get()
TQ_get ==
    /\ queues' = get_queues(queues)
    /\ task_lookup' = get_lookup(queues, task_lookup)
    /\ tq_pending' = tq_pending \ {get_task(queues)}
    /\ tq_removed' = tq_removed \ {get_task(queues)}
    /\ tq_last' = [op |-> "get", task |-> get_task(queues),
                   before |-> tq_pending, removed |-> tq_removed,
                   ret |-> get_task(queues) # NoTask]
    /\ UNCHANGED <<tq_puts, ws_vars, orch_vars, reg_vars>>

\* await task_queue.remove(task_id)
TQ_remove ==
    /\ \E tid \in TQTaskIds :
         /\ task_lookup' = remove_lookup(task_lookup, tid)
         /\ tq_last' = [op |-> "remove",
                        task |-> Task(tid, None, None, NoWf, DefaultPriority, 0),
                        before |-> tq_pending, removed |-> tq_removed,
                        ret |-> remove_result(task_lookup, tid)]
         /\ tq_removed' = IF remove_result(task_lookup, tid)
                          THEN tq_removed \cup
                               {x \in tq_pending : x.task_id = tid}
                          ELSE tq_removed
    /\ UNCHANGED <<queues, tq_pending, tq_puts, ws_vars, orch_vars, reg_vars>>

NextTQ == TQ_put \/ TQ_get \/ TQ_remove
SpecTQ == Init /\ [][NextTQ]_vars

(* ---------------------- WorkflowState driven alone ---------------------- *)
\* the ids the callers pass
WSWorkflowIds == {1, 2}
WSTaskIds == {1, 2}
\* the outcomes the callers pass: a success, a failure and the empty dict
WSResults == {"completed_result", "failed_result", "empty_result"}
\* the metadata the callers pass: none, which is stored as {}
WSMetadata == {Metadata("absent", "absent")}

WS_create_workflow ==
    /\ \E w \in WSWorkflowIds, metadata \in WSMetadata :
         /\ workflows' = create_workflow(workflows, w, metadata)
         /\ ws_last' = WSCall("create_workflow", w, 0, None,
                              create_workflow_raises(workflows, w))
    /\ UNCHANGED <<task_to_workflow, tq_vars, orch_vars, reg_vars>>

WS_add_task_to_workflow ==
    /\ \E w \in WSWorkflowIds, t \in WSTaskIds :
         /\ w \in DOMAIN workflows => Len(workflows[w].subtasks) < MaxSubtasks
         /\ workflows' = add_task_workflows(workflows, w, t)
         /\ task_to_workflow' = add_task_mapping(workflows, task_to_workflow, w, t)
         /\ ws_last' = WSCall("add_task_to_workflow", w, t, None,
                              add_task_raises(workflows, w))
    /\ UNCHANGED <<tq_vars, orch_vars, reg_vars>>

WS_update_task_status ==
    /\ \E t \in WSTaskIds, result \in WSResults :
         /\ workflows' = update_task_status(workflows, task_to_workflow, t, result)
         /\ ws_last' = WSCall("update_task_status", NoWf, t, result, FALSE)
    /\ UNCHANGED <<task_to_workflow, tq_vars, orch_vars, reg_vars>>

NextWS == WS_create_workflow \/ WS_add_task_to_workflow \/ WS_update_task_status
SpecWS == Init /\ [][NextWS]_vars

(* ----------------------------- Orchestrator ---------------------------- *)
\* the task_type values callers submit: the multi-stage kind and a kind
\* that becomes a single subtask (the kind "unknown", which the routing
\* table does not know, is what a retried Task gets when the metadata
\* names no task_type)
JobKinds == {"implement_system", "fix_bug"}
\* task_description["metadata"].get("task_type") / .get("payload"): absent,
\* or what the caller put there
MetaTaskTypes == {"absent", "fix_bug"}
MetaPayloads == {"absent"}
\* what an agent's execute_task does: returns a success dict, returns a
\* failure dict (architect.py:121-126), or raises
Outcomes == {"completed_result", "failed_result", "raise"}

\* Orchestrator.register_agent, called as main() and demo.py call it:
\* after construction, before the first submit_task
register_agent ==
    /\ next_wf = 1
    /\ \E a \in AgentTypes :
         /\ ~agents[a]
         /\ agents' = [agents EXCEPT ![a] = TRUE]
    /\ last' = [NoHandler EXCEPT !.op = "register_agent"]
    /\ UNCHANGED <<tq_vars, ws_vars, error_queue, next_task, next_wf, inflight,
                   hist, job_kind, callbacks, loop, response_queue, submitting,
                   reg_vars>>

\* submit_task: the loop over the subtasks, from subtask i on
RECURSIVE submit_subtasks(_, _, _, _, _)
submit_subtasks(S, subtasks, i, workflow_id, priority) ==
    IF i > Len(subtasks) THEN S
    ELSE LET tid == S.next_task
             task == Task(tid, subtasks[i].task_type, subtasks[i].payload,
                          workflow_id, priority, 0)
         IN  submit_subtasks(
                [workflows |-> add_task_workflows(S.workflows, workflow_id, tid),
                 task_to_workflow |->
                    add_task_mapping(S.workflows, S.task_to_workflow, workflow_id, tid),
                 queues |-> put_queues(S.queues, task),
                 task_lookup |-> put_lookup(S.task_lookup, task),
                 next_task |-> tid + 1],
                subtasks, i + 1, workflow_id, priority)

\* Orchestrator.submit_task, for callers that submit these task_types
submit_job(kinds) ==
    /\ next_wf <= MaxWorkflows
    /\ \E kind \in kinds, priority \in Priority,
          md_type \in MetaTaskTypes, md_payload \in MetaPayloads :
         LET subtasks == break_down_task(kind)
             created == create_workflow(workflows, next_wf,
                                        Metadata(md_type, md_payload))
             S == submit_subtasks(
                    [workflows |-> created, task_to_workflow |-> task_to_workflow,
                     queues |-> queues, task_lookup |-> task_lookup,
                     next_task |-> next_task],
                    subtasks, 1, next_wf, priority)
         IN  /\ next_task + Len(subtasks) - 1 <= MaxTasks
             /\ workflows' = S.workflows
             /\ task_to_workflow' = S.task_to_workflow
             /\ queues' = S.queues
             /\ task_lookup' = S.task_lookup
             /\ next_task' = S.next_task
             /\ next_wf' = next_wf + 1
             /\ job_kind' = [job_kind EXCEPT ![next_wf] = kind]
             /\ hist' = [t \in TaskIds |->
                           IF t >= next_task /\ t < S.next_task
                           THEN [NoHistory EXCEPT !.priority = priority]
                           ELSE hist[t]]
             /\ last' = [NoHandler EXCEPT !.op = "submit_task"]
    /\ UNCHANGED <<tq_pending, tq_puts, tq_last, tq_removed, ws_last, agents, error_queue,
                   inflight, callbacks, loop, response_queue, submitting,
                   reg_vars>>

\* the state a handler leaves, and the histories of the dispatch it ended;
\* an exception that leaves the handler leaves process_tasks
Handled(op, task, outcome, invoked, eff) ==
    /\ loop' = IF eff.raised THEN "terminated" ELSE loop
    /\ workflows' = eff.workflows
    /\ queues' = eff.queues
    /\ task_lookup' = eff.task_lookup
    /\ error_queue' = eff.error_queue
    /\ last' = [op |-> op, task |-> task, outcome |-> outcome,
                invoked |-> invoked, fired |-> eff.fired,
                recorded |-> eff.recorded, strategy |-> eff.strategy,
                requeued |-> eff.requeued]
    /\ hist' = [hist EXCEPT ![task.task_id] =
                  [@ EXCEPT !.dispatches = @ + 1,
                            !.successes = IF outcome = "completed_result"
                                          THEN @ + 1 ELSE @,
                            !.requeued = @ + Len(eff.requeued),
                            !.after_critical =
                                IF hist[task.task_id].critical
                                THEN @ + Len(eff.requeued) ELSE @,
                            !.decisions = IF eff.strategy \in {"decompose", "escalate"}
                                          THEN @ + 1 ELSE @]]

\* process_tasks, line 568: the loop goes on to its next task once the
\* _execute_task it awaits has returned or raised
execute_awaited_NotAwaited(inf) == TRUE
execute_awaited(inf) == inf = <<>>

\* process_tasks, one iteration up to the await of agent.execute_task: get
\* the next task; with no agent for it, _handle_error and continue;
\* otherwise the task is handed to the agent
dispatch ==
    /\ loop = "running"
    /\ execute_awaited(inflight)
    /\ ~empty(queues)
    /\ LET task == get_task(queues)
           qs == get_queues(queues)
           lk == get_lookup(queues, task_lookup)
       IN  IF no_agent(agents, task.task_type)
           THEN /\ Handled("_handle_error", task, "no_agent", FALSE,
                           handle_error(task, workflows, task_to_workflow,
                                        qs, lk, error_queue, callbacks))
                /\ UNCHANGED inflight
           ELSE /\ inflight' = Append(inflight, task)
                /\ queues' = qs
                /\ task_lookup' = lk
                /\ last' = [NoHandler EXCEPT !.op = "_execute_task",
                                             !.task = task, !.invoked = TRUE]
                /\ UNCHANGED <<workflows, error_queue, hist, loop>>
    /\ UNCHANGED <<tq_pending, tq_puts, tq_last, tq_removed, task_to_workflow, ws_last,
                   agents, next_task, next_wf, job_kind, callbacks, response_queue, submitting,
                   reg_vars>>

\* process_tasks, the rest of the iteration: execute_task returns a dict
\* (_handle_result) or raises (_handle_error)
worker_returns ==
    /\ inflight # <<>>
    /\ \E outcome \in Outcomes :
         LET task == Head(inflight) IN
         IF outcome = "raise"
         THEN Handled("_handle_error", task, outcome, TRUE,
                      handle_error(task, workflows, task_to_workflow,
                                   queues, task_lookup, error_queue, callbacks))
         ELSE Handled("_handle_result", task, outcome, TRUE,
                      try_handle_result(task, outcome, workflows, task_to_workflow,
                                        queues, task_lookup, error_queue, callbacks))
    /\ inflight' = Tail(inflight)
    /\ UNCHANGED <<tq_pending, tq_puts, tq_last, tq_removed, task_to_workflow, ws_last,
                   agents, next_task, next_wf, job_kind, callbacks, response_queue, submitting,
                   reg_vars>>

\* Orchestrator.submit_task
submit_task == submit_job(JobKinds)

Next == register_agent \/ submit_task \/ dispatch \/ worker_returns
Spec == Init /\ [][Next]_vars

(* ------------------- Orchestrator with its error loop ------------------- *)
\* the severities other components report
ReportSeverities == {"critical", "info"}

\* a component reports a failure of a submitted task: it puts an
\* ErrorMessage on Orchestrator.error_queue (what the agents'
\* _send_error_message is there for)
report_error ==
    /\ \E t \in TaskIds, severity \in ReportSeverities :
         /\ t < next_task
         /\ hist[t].reports < MaxReports
         /\ error_queue' = Append(error_queue, ErrorMessage(t, severity))
         /\ hist' = [hist EXCEPT ![t].reports = @ + 1]
    /\ last' = [NoHandler EXCEPT !.op = "report_error"]
    /\ UNCHANGED <<tq_vars, ws_vars, agents, next_task, next_wf, inflight,
                   job_kind, callbacks, loop, response_queue, submitting,
                   reg_vars>>

\* _process_error_loop, one iteration: get the oldest ErrorMessage and
\* _handle_error_message it
process_error_loop ==
    /\ error_queue # <<>>
    /\ LET error == Head(error_queue)
           h == handle_error_message(error, task_to_workflow)
       IN  /\ error_queue' = Tail(error_queue)
           /\ last' = [NoHandler EXCEPT
                         !.op = "_handle_error_message",
                         !.task = [NoTask EXCEPT !.task_id = error.task_id],
                         !.outcome = error.severity,
                         !.fired = h.fired]
           /\ hist' = [hist EXCEPT ![error.task_id].critical =
                                      @ \/ h.critical_logged]
    /\ UNCHANGED <<tq_vars, ws_vars, agents, next_task, next_wf, inflight,
                   job_kind, callbacks, loop, response_queue, submitting,
                   reg_vars>>

\* the callers submit single-task jobs
submit_single_task == submit_job({"fix_bug"})

NextErr ==
    \/ register_agent \/ submit_single_task \/ dispatch \/ worker_returns
    \/ report_error \/ process_error_loop
SpecErr == Init /\ [][NextErr]_vars

(* ------------- Orchestrator with tasks put outside any job -------------- *)
\* await orchestrator.task_queue.put(Task(..., parent_id=None)): a task
\* that belongs to no workflow
put_orphan_task ==
    /\ next_task <= MaxTasks
    /\ \E priority \in Priority :
         LET task == Task(next_task, "fix_bug", "job_payload", NoWf, priority, 0) IN
         /\ queues' = put_queues(queues, task)
         /\ task_lookup' = put_lookup(task_lookup, task)
         /\ hist' = [hist EXCEPT ![next_task] =
                       [NoHistory EXCEPT !.priority = priority]]
    /\ next_task' = next_task + 1
    /\ last' = [NoHandler EXCEPT !.op = "put_orphan_task"]
    /\ UNCHANGED <<tq_pending, tq_puts, tq_last, tq_removed, ws_vars, agents, error_queue,
                   next_wf, inflight, job_kind, callbacks, loop, response_queue, submitting,
                   reg_vars>>

NextOrphan ==
    \/ register_agent \/ submit_task \/ put_orphan_task \/ dispatch
    \/ worker_returns
SpecOrphan == Init /\ [][NextOrphan]_vars

(* ------------------ Orchestrator with callbacks registered -------------- *)
\* the event types the callers register callbacks for
RegisteredEvents == {"on_task_complete", "on_task_failed"}
\* what a registered callback does when called
CallbackBehaviours == {"returns", "raises"}

\* Orchestrator.register_callback, called after construction, before the
\* first submit_task
register_callback ==
    /\ next_wf = 1
    /\ \E event \in RegisteredEvents, callback \in CallbackBehaviours :
         /\ Len(callbacks[event]) < MaxCallbacks
         /\ callbacks' = IF event \in CallbackEvents
                         THEN [callbacks EXCEPT ![event] = Append(@, callback)]
                         ELSE callbacks
    /\ last' = [NoHandler EXCEPT !.op = "register_callback"]
    /\ UNCHANGED <<tq_vars, ws_vars, agents, error_queue, next_task, next_wf,
                   inflight, hist, job_kind, loop, response_queue, submitting,
                   reg_vars>>

NextCb ==
    \/ register_agent \/ register_callback \/ submit_task \/ dispatch
    \/ worker_returns
SpecCb == Init /\ [][NextCb]_vars

(* ------------- process_tasks run on the tasks submitted before ---------- *)
\* submit_task called before process_tasks has taken its first task
submit_before_run ==
    /\ inflight = <<>>
    /\ \A t \in TaskIds : hist[t].dispatches = 0
    /\ submit_task

\* process_tasks steps with dispatch and, every execute_task awaited
\* returning or raising, with worker_returns
NextRun == register_agent \/ submit_before_run \/ dispatch \/ worker_returns
SpecRun == Init /\ [][NextRun]_vars

(* ------------- submit_task concurrent with the dispatch loop ------------ *)
\* the kind of job submitted while the loops of run() are running
ConcurrentKinds == {"implement_system"}

\* Orchestrator.submit_task up to its first suspension: the workflow is
\* created, _break_down_task names the subtasks' ids, the first subtask is
\* added to the workflow and its put is awaited (asyncio.Queue.put suspends,
\* if it does, before it inserts the item)
submit_task_begins ==
    /\ submitting = NoSubmit
    /\ next_wf <= MaxWorkflows
    /\ \E kind \in ConcurrentKinds, priority \in Priority,
          md_type \in MetaTaskTypes, md_payload \in MetaPayloads :
         LET subtasks == break_down_task(kind)
             created == create_workflow(workflows, next_wf,
                                        Metadata(md_type, md_payload))
         IN  /\ next_task + Len(subtasks) - 1 <= MaxTasks
             /\ workflows' = add_task_workflows(created, next_wf, next_task)
             /\ task_to_workflow' = add_task_mapping(created, task_to_workflow,
                                                     next_wf, next_task)
             /\ submitting' = [workflow_id |-> next_wf, first |-> next_task,
                               i |-> 1, priority |-> priority]
             /\ next_task' = next_task + Len(subtasks)
             /\ next_wf' = next_wf + 1
             /\ job_kind' = [job_kind EXCEPT ![next_wf] = kind]
             /\ last' = [NoHandler EXCEPT !.op = "submit_task"]
    /\ UNCHANGED <<tq_vars, ws_last, agents, error_queue, inflight, hist,
                   callbacks, loop, response_queue, reg_vars>>

\* submit_task resumed in its await: the Task is put; the loop then adds
\* the next subtask to the workflow and awaits its put, or submit_task
\* returns after the last one
submit_task_resumes ==
    /\ submitting # NoSubmit
    /\ LET w == submitting.workflow_id
           subtasks == break_down_task(job_kind[w])
           i == submitting.i
           tid == submitting.first + i - 1
           task == Task(tid, subtasks[i].task_type, subtasks[i].payload, w,
                        submitting.priority, 0)
       IN  /\ queues' = put_queues(queues, task)
           /\ task_lookup' = put_lookup(task_lookup, task)
           /\ hist' = [hist EXCEPT ![tid] =
                         [NoHistory EXCEPT !.priority = submitting.priority]]
           /\ IF i < Len(subtasks)
              THEN /\ workflows' = add_task_workflows(workflows, w, tid + 1)
                   /\ task_to_workflow' = add_task_mapping(workflows, task_to_workflow,
                                                           w, tid + 1)
                   /\ submitting' = [submitting EXCEPT !.i = i + 1]
              ELSE /\ submitting' = NoSubmit
                   /\ UNCHANGED <<workflows, task_to_workflow>>
    /\ last' = [NoHandler EXCEPT !.op = "submit_task"]
    /\ UNCHANGED <<tq_pending, tq_puts, tq_last, tq_removed, ws_last, agents,
                   error_queue, next_task, next_wf, inflight, job_kind, callbacks,
                   loop, response_queue, reg_vars>>

NextSubmit ==
    \/ register_agent \/ submit_task_begins \/ submit_task_resumes
    \/ dispatch \/ worker_returns
SpecSubmit == Init /\ [][NextSubmit]_vars

(* ----------------- Orchestrator with its response loop ------------------ *)
\* the Responses other components send: the statuses and the result dicts
ResponseStatuses == {"completed", "failed"}
ResponseResults == {"completed_result", "failed_result", None}

\* a component answers for a submitted task: it puts a Response on
\* Orchestrator.response_queue (what the agents' receive_message builds its
\* Response for)
put_response ==
    /\ \E t \in TaskIds, status \in ResponseStatuses, result \in ResponseResults :
         /\ t < next_task
         /\ hist[t].responses < MaxResponses
         /\ response_queue' = Append(response_queue, Response(t, status, result))
         /\ hist' = [hist EXCEPT ![t].responses = @ + 1]
    /\ last' = [NoHandler EXCEPT !.op = "put_response"]
    /\ UNCHANGED <<tq_vars, ws_vars, agents, error_queue, next_task, next_wf,
                   inflight, job_kind, callbacks, loop, submitting, reg_vars>>

\* _process_response_loop, one iteration: get the oldest Response and
\* _handle_response it (no callback is registered in this specification,
\* so no exception leaves the handler)
process_response_loop ==
    /\ response_queue # <<>>
    /\ LET response == Head(response_queue)
           eff == handle_response(response, workflows, task_to_workflow, queues,
                                  task_lookup, error_queue, callbacks)
       IN  /\ ~eff.raised
           /\ response_queue' = Tail(response_queue)
           /\ workflows' = eff.workflows
           /\ queues' = eff.queues
           /\ task_lookup' = eff.task_lookup
           /\ error_queue' = eff.error_queue
           /\ last' = [op |-> "_handle_response",
                       task |-> [NoTask EXCEPT
                                   !.task_id = response.task_id,
                                   !.parent_id = get_task_workflow(
                                       task_to_workflow, response.task_id)],
                       outcome |-> response.status, invoked |-> FALSE,
                       fired |-> eff.fired, recorded |-> eff.recorded,
                       strategy |-> eff.strategy, requeued |-> eff.requeued]
           /\ hist' = [hist EXCEPT ![response.task_id] =
                         [@ EXCEPT !.requeued = @ + Len(eff.requeued),
                                   !.decisions =
                                       IF eff.strategy \in {"decompose", "escalate"}
                                       THEN @ + 1 ELSE @]]
    /\ UNCHANGED <<tq_pending, tq_puts, tq_last, tq_removed, task_to_workflow,
                   ws_last, agents, next_task, next_wf, inflight, job_kind,
                   callbacks, loop, submitting, reg_vars>>

NextResp ==
    \/ register_agent \/ submit_single_task \/ dispatch \/ worker_returns
    \/ put_response \/ process_response_loop
SpecResp == Init /\ [][NextResp]_vars

(* ------------- ModelRegistry and ModelSelector driven alone ------------- *)
\* the names ModelRegistry is constructed with: its own parameter default
\* and what Orchestrator.__init__ passes
ConstructionDefaults == {RegistryDefault, ConfiguredDefault}

\* ModelRegistry(default_model=...), ModelSelector(registry)
InitMS == InitOrchestrator /\ \E d \in ConstructionDefaults : construct_registry(d)

\* the model_info dicts the callers register: A declares two capabilities
\* (and high scores), B declares debugging as well
InfoA ==
    ModelInfo("Google", None, {"natural_language_understanding", "code_generation"},
              [m \in {"code_generation", "debugging"} |-> 99], 100)
InfoB ==
    ModelInfo("ChatLLM", None,
              {"natural_language_understanding", "code_generation", "debugging"},
              [m \in {"code_generation", "debugging"} |-> 96], 100)
\* the (model_name, model_info) pairs the callers pass to register_model
RegisterInputs ==
    {[name |-> "A", info |-> InfoA], [name |-> "B", info |-> InfoB],
     [name |-> "B", info |-> EmptyInfo]}
    \cup {[name |-> n, info |-> InfoB] :
            n \in {"claude-3-opus", "gpt-4", "gpt-4-turbo"}}
\* the names the callers pass to set_default_model
DefaultInputs == {"B", "no-such-model"}
\* the task descriptions the callers pass to select_model
TaskInputs ==
    {TaskDescription(model, kind.task_type, kind.requirements, constraints) :
        model \in {"absent", "B", "no-such-model"},
        kind \in {[task_type |-> "fix_bug", requirements |-> <<>>],
                  [task_type |-> "chat", requirements |-> <<"Complex reasoning">>]},
        constraints \in {<<>>, <<"provider:Google">>,
                         <<"Low cost", "High Performance">>}}

\* model_registry.register_model(model_name, model_info)
MS_register_model ==
    /\ registrations < MaxRegistrations
    /\ \E input \in RegisterInputs :
         /\ models' = register_model(models, input.name, input.info)
         /\ ms_last' = [NoSelect EXCEPT !.op = "register_model",
                                        !.name = input.name]
    /\ registrations' = registrations + 1
    /\ UNCHANGED <<default_model, config_default, auto_select, tq_vars, ws_vars,
                   orch_vars>>

\* Orchestrator.set_default_model(model_name), which calls
\* ModelRegistry.set_default_model
MS_set_default_model ==
    /\ \E model_name \in DefaultInputs :
         /\ default_model' =
                set_default_model_pointer(models, default_model, model_name)
         /\ config_default' =
                set_default_model_config(models, config_default, model_name)
         /\ ms_last' = [NoSelect EXCEPT
                          !.op = "set_default_model",
                          !.name = model_name,
                          !.ok = set_default_model_result(models, model_name),
                          !.before = [models |-> models,
                                      default_model |-> default_model,
                                      config_default |-> config_default]]
    /\ UNCHANGED <<models, auto_select, registrations, tq_vars, ws_vars, orch_vars>>

\* model_selector.select_model(task)
MS_select_model ==
    /\ \E task \in TaskInputs :
         ms_last' = [NoSelect EXCEPT
                       !.op = "select_model",
                       !.task = task,
                       !.selected = select_model(models, default_model, task)]
    /\ UNCHANGED <<models, default_model, config_default, auto_select,
                   registrations, tq_vars, ws_vars, orch_vars>>

NextMS == MS_register_model \/ MS_set_default_model \/ MS_select_model
SpecMS == InitMS /\ [][NextMS]_vars

(* ------------- _execute_task driven alone, with the config -------------- *)
\* the task.content["model"] values, kinds and payload["model"] values of
\* the Tasks executed ("Claude-3.5-Opus" is what demo.py puts in a payload)
ExecContentModels == {"absent", "B"}
ExecKinds == {[task_type |-> "fix_bug", requirements |-> <<>>],
              [task_type |-> "chat", requirements |-> <<"Complex reasoning">>]}
ExecPayloadModels == {"absent", "Claude-3.5-Opus"}

\* config.set("model.auto_select", value)
config_set_auto_select ==
    /\ \E text \in {"True", "False"} :
         auto_select' = set_nested_value(text)
    /\ ms_last' = [NoSelect EXCEPT !.op = "config.set"]
    /\ UNCHANGED <<models, default_model, config_default, registrations,
                   tq_vars, ws_vars, orch_vars>>

\* await orchestrator._execute_task(agent, task), up to the call of
\* agent.execute_task: executed is payload["model"] as the agent gets it
execute_task ==
    /\ \E content_model \in ExecContentModels, kind \in ExecKinds,
          payload_model \in ExecPayloadModels :
         LET task_dict == execute_task_dict(content_model, kind.task_type,
                                            kind.requirements, <<>>)
             selected_model == execute_task_selected(models, default_model,
                                                     auto_select, task_dict)
         IN  ms_last' = [NoSelect EXCEPT
                           !.op = "_execute_task",
                           !.task = task_dict,
                           !.payload_model = payload_model,
                           !.selected = selected_model,
                           !.executed = stamp_model(payload_model, selected_model)]
    /\ UNCHANGED <<models, default_model, config_default, auto_select,
                   registrations, tq_vars, ws_vars, orch_vars>>

NextExec ==
    \/ MS_register_model \/ MS_set_default_model \/ config_set_auto_select
    \/ execute_task
SpecExec == InitMS /\ [][NextExec]_vars

(* ------------------------------- claims -------------------------------- *)
\* C1: every TaskQueue.get returns a task of the highest tier that holds a
\* pending task (HIGH before MEDIUM before LOW) and, within that tier, the
\* task put earliest; it returns None only when nothing is pending.
\* (tq_pending is kept apart from _queues; obj is the put order.)
C1_GetOrder ==
    tq_last.op = "get" =>
        IF tq_last.before = {}
        THEN tq_last.task = NoTask
        ELSE /\ tq_last.task \in tq_last.before
             /\ \A x \in tq_last.before :
                  \/ Rank(tq_last.task.priority) < Rank(x.priority)
                  \/ /\ tq_last.task.priority = x.priority
                     /\ tq_last.task.obj <= x.obj
\* a get that had to choose between tiers and within its tier
C1_Witness ==
    /\ tq_last.op = "get"
    /\ \E x, y \in tq_last.before :
         /\ x # tq_last.task /\ x.priority = tq_last.task.priority
         /\ y.priority # tq_last.task.priority

\* C2: a workflow that has subtasks is COMPLETED if and only if every id in
\* its subtasks list has a recorded result and every one of these results
\* is a success.
C2_CompletedIff ==
    \A w \in DOMAIN workflows :
        workflows[w].subtasks # <<>> =>
            (workflows[w].status = COMPLETED
             <=> \A t \in SubtaskSet(workflows[w]) :
                    /\ workflows[w].results[t] # "absent"
                    /\ result_status(workflows[w].results[t]) = "completed")

\* C3: a workflow is FAILED if and only if every id in its subtasks list
\* has a recorded result and at least one of these results is a failure.
C3_FailedIff ==
    \A w \in DOMAIN workflows :
        workflows[w].status = FAILED
        <=> /\ \A t \in SubtaskSet(workflows[w]) :
                  workflows[w].results[t] # "absent"
            /\ \E t \in SubtaskSet(workflows[w]) :
                  /\ workflows[w].results[t] # "absent"
                  /\ result_status(workflows[w].results[t]) # "completed"

\* C4: a workflow with a subtask that has no recorded result is IN_PROGRESS.
C4_InProgress ==
    \A w \in DOMAIN workflows :
        (\E t \in SubtaskSet(workflows[w]) : workflows[w].results[t] = "absent")
            => workflows[w].status = IN_PROGRESS

(* the claims about the Orchestrator read the histories last and hist *)
\* the ways a dispatch fails: no agent for the task, execute_task raises,
\* execute_task returns a failure dict
Failures == {"no_agent", "raise", "failed_result"}
\* the task ids with a recorded result in a workflow
Recorded(wf) == {t \in TaskIds : wf.results[t] # "absent"}
\* the queue is drained: nothing pending, nothing in flight
Drained == empty(queues) /\ inflight = <<>>
\* a Task with this id is pending in tier p
PendingIn(p, task_id) ==
    \E i \in 1..Len(queues[p]) : queues[p][i].task_id = task_id
Pending(task_id) == \E p \in Priority : PendingIn(p, task_id)

\* C5: for a task owned by a workflow, the stored retry counter equals the
\* number of times the task was re-enqueued (one increment per retried
\* failure) and never exceeds max_retries; every failed dispatch of the
\* task ends either with the task re-enqueued by RETRY or, once the counter
\* has reached max_retries, with a decompose/escalate decision and no
\* re-enqueue.
C5_RetryCounter ==
    /\ \A w \in DOMAIN workflows : \A t \in SubtaskSet(workflows[w]) :
         /\ workflows[w].metadata.retry_count[t] <= max_retries
         /\ workflows[w].metadata.retry_count[t] = hist[t].requeued
    /\ (last.outcome \in Failures /\ last.task.parent_id # NoWf) =>
         LET count == workflows[last.task.parent_id]
                        .metadata.retry_count[last.task.task_id]
         IN  \/ /\ last.strategy = "retry"
                /\ Len(last.requeued) = 1
                /\ Pending(last.task.task_id)
             \/ /\ last.strategy \in {"decompose", "escalate"}
                /\ last.requeued = <<>>
                /\ count = max_retries

\* C6: a job with a single task whose every dispatch failed has, once the
\* queue is drained, been re-enqueued exactly max_retries times and given
\* one decompose/escalate decision, and the job is FAILED with exactly one
\* recorded result.
C6_AlwaysFailingJob ==
    \A w \in DOMAIN workflows :
        LET wf == workflows[w] IN
        (/\ Len(wf.subtasks) = 1
         /\ Drained
         /\ hist[wf.subtasks[1]].dispatches > 0
         /\ hist[wf.subtasks[1]].successes = 0)
        => /\ hist[wf.subtasks[1]].requeued = max_retries
           /\ hist[wf.subtasks[1]].decisions = 1
           /\ wf.status = FAILED
           /\ Cardinality(Recorded(wf)) = 1

\* C7: a multi-stage job (implement_system) whose subtasks were all
\* dispatched to a worker that returned a success is, once the queue is
\* drained, COMPLETED with exactly 3 recorded results, one per subtask.
C7_Scenario(w) ==
    /\ job_kind[w] = "implement_system"
    /\ Drained
    /\ \A t \in SubtaskSet(workflows[w]) :
         /\ hist[t].dispatches >= 1
         /\ hist[t].successes = hist[t].dispatches
C7_MultiStageCompletes ==
    \A w \in DOMAIN workflows :
        C7_Scenario(w) =>
            /\ workflows[w].status = COMPLETED
            /\ Len(workflows[w].subtasks) = 3
            /\ Recorded(workflows[w]) = SubtaskSet(workflows[w])
            /\ Cardinality(Recorded(workflows[w])) = 3
C7_Witness ==
    \E w \in DOMAIN workflows :
        C7_Scenario(w) /\ \A a \in AgentTypes : agents[a]

\* C8: a dispatch whose worker raised and a dispatch whose worker returned
\* a failure dict are handled alike: a failure result is recorded for the
\* task, the on_task_failed callbacks and no on_task_complete callbacks are
\* fired, and a recovery strategy is chosen (RETRY while the counter was
\* under the limit).
C8_FailureHandledAlike ==
    (last.outcome \in {"raise", "failed_result"} /\ last.task.parent_id # NoWf) =>
        LET tid == last.task.task_id
            wf == workflows[last.task.parent_id]
        IN  /\ wf.results[tid] \in {"error_result", "failed_result"}
            /\ last.fired = << <<"on_task_failed", tid>> >>
            /\ last.strategy \in {"retry", "decompose", "escalate"}
            /\ last.strategy = "retry" <=> last.requeued # <<>>

\* C9: a task is handed to a worker only when its kind maps to a
\* registered agent; a dequeued task of a workflow with no such agent is
\* not handed to any worker, gets a failure result recorded, has the
\* on_task_failed callbacks fired and goes the recovery path of a raised
\* failure (RETRY with the counter incremented and the task pending again
\* while the counter was under max_retries, decompose afterwards), and the
\* loop is free to take the next task.
C9_NoAgentFailure ==
    /\ \A i \in 1..Len(inflight) :
         /\ determine_agent_type(inflight[i].task_type) \in AgentTypes
         /\ agents[determine_agent_type(inflight[i].task_type)]
    /\ (last.outcome = "no_agent" /\ last.task.parent_id # NoWf) =>
         LET tid == last.task.task_id
             wf == workflows[last.task.parent_id]
         IN  /\ ~last.invoked
             /\ wf.results[tid] = "error_result"
             /\ wf.status # COMPLETED
             /\ last.fired = << <<"on_task_failed", tid>> >>
             /\ inflight = <<>>
             /\ \/ /\ last.strategy = "retry"
                   /\ wf.metadata.retry_count[tid] = hist[tid].dispatches
                   /\ hist[tid].dispatches <= max_retries
                   /\ Pending(tid)
                \/ /\ last.strategy = "decompose"
                   /\ wf.metadata.retry_count[tid] = max_retries
                   /\ hist[tid].dispatches = max_retries + 1
                   /\ ~Pending(tid)
\* both cases: a kind the table does not map, and a mapped kind whose agent
\* is not registered
C9_Witness ==
    /\ last.outcome = "no_agent" /\ last.task.parent_id # NoWf
    /\ last.strategy = "decompose"
    /\ determine_agent_type(last.task.task_type) \in AgentTypes
    /\ \E t \in TaskIds :
         /\ hist[t].dispatches > 0
         /\ t # last.task.task_id
         /\ Pending(t)

\* C10: a task re-enqueued by RETRY is pending in the tier of the priority
\* it was submitted at.
C10_RetryKeepsPriority ==
    (last.strategy = "retry" /\ last.requeued # <<>>) =>
        /\ last.requeued[1].priority = hist[last.task.task_id].priority
        /\ PendingIn(hist[last.task.task_id].priority, last.task.task_id)

\* C11: once a CRITICAL ErrorMessage for a task of a workflow has been
\* handled, the task is never re-enqueued again, whatever its retry count.
C11_CriticalNeverRequeued ==
    \A t \in TaskIds : hist[t].critical => hist[t].after_critical = 0

\* C12: when a dispatched task with no owning workflow fails, the recovery
\* policy decides ESCALATE for it.
C12_OrphanEscalated ==
    (last.outcome \in Failures /\ last.task.parent_id = NoWf) =>
        last.strategy = "escalate"

\* C13: no failure of a task terminates the dispatch loop: whatever a
\* worker or a callback did, the loop is running (a terminated loop never
\* dequeues the tasks still pending).
C13_LoopSurvives == loop = "running"

\* C14: TaskQueue.remove returns False when no Task with that id is pending
\* that an earlier remove has not yet been given: the id was never put, its
\* Task has been returned by get, or an earlier remove already took it.
C14_RemoveOnce ==
    (/\ tq_last.op = "remove"
     /\ \A x \in tq_last.before \ tq_last.removed :
           x.task_id # tq_last.task.task_id)
    => ~tq_last.ret

\* C15: a pending Task that remove returned True for is cancelled: get
\* does not return it and get_task_count does not count it.
C15_RemovedIsCancelled ==
    /\ tq_last.op = "get" => tq_last.task \notin tq_last.removed
    /\ \A p \in Priority :
         get_task_count(queues)[p] =
            Cardinality({x \in tq_pending \ tq_removed : x.priority = p})

(* the claims about ModelSelector read the history ms_last *)
\* the capabilities select_model requires for the last task
LastRequired ==
    determine_required_capabilities(ms_last.task.task_type,
                                    ms_last.task.requirements)
\* the registered names whose profile declares all of them
Capable(required) ==
    {models[i].name : i \in {j \in 1..Len(models) :
                                required \subseteq models[j].info.capabilities}}
\* the registered names
RegisteredNames == {models[i].name : i \in 1..Len(models)}

\* C16: select_model with an explicit model name that is registered
\* returns exactly that name, whatever the catalog holds and whatever the
\* task's kind, requirements and constraints are.
C16_ExplicitModelReturned ==
    (/\ ms_last.op = "select_model"
     /\ ms_last.task.model \in RegisteredNames)
    => ms_last.selected = ms_last.task.model

\* C17: select_model returns a registered name, and the catalog's default
\* when no registered profile has all the required capabilities (and the
\* task names no registered model).
C17_SelectedIsRegistered ==
    ms_last.op = "select_model" =>
        /\ ms_last.selected \in RegisteredNames
        /\ (Capable(LastRequired) = {} /\ ms_last.task.model \notin RegisteredNames)
             => ms_last.selected = default_model

\* the last task's constraints leave none of the capable profiles
AllVetoed ==
    /\ Capable(LastRequired) # {}
    /\ \A n \in Capable(LastRequired) :
         \E i \in 1..Len(ms_last.task.constraints) :
            ~satisfies_constraint(get_model(models, n), ms_last.task.constraints[i])

\* C18: when some profile has the required capabilities and none of these
\* profiles satisfies the task's constraints, select_model returns what it
\* returns for the same task with an empty constraints list.
C18_ConstraintsNeverVeto ==
    (ms_last.op = "select_model" /\ AllVetoed) =>
        ms_last.selected =
            select_model(models, default_model,
                         [ms_last.task EXCEPT !.constraints = <<>>])
\* a selection with no explicit model whose constraints no capable profile
\* satisfies
C18_Witness ==
    /\ ms_last.op = "select_model" /\ AllVetoed
    /\ ms_last.task.model = "absent"
    /\ ms_last.selected # default_model

\* C19: with no explicit model name and at least one registered profile
\* that has every required capability, select_model returns a profile
\* whose capabilities include all the required ones.
C19_SelectedIsCapable ==
    (/\ ms_last.op = "select_model"
     /\ ms_last.task.model = "absent"
     /\ Capable(LastRequired) # {})
    => ms_last.selected \in Capable(LastRequired)
\* A lacks debugging, B has it: a fix_bug task gets B
C19_Witness ==
    /\ ms_last.op = "select_model"
    /\ ms_last.task.model = "absent"
    /\ ms_last.task.task_type = "fix_bug"
    /\ "A" \in RegisteredNames \ Capable(LastRequired)
    /\ ms_last.selected = "B"

\* C20: set_default_model with an unregistered name returns False and
\* leaves the default pointer, the registered profiles and the configured
\* default as they were; with a registered name it returns True and the
\* default pointer (and the configured default) is that name.
C20_SetDefault ==
    ms_last.op = "set_default_model" =>
        IF \E i \in 1..Len(ms_last.before.models) :
              ms_last.before.models[i].name = ms_last.name
        THEN /\ ms_last.ok
             /\ default_model = ms_last.name
             /\ config_default = ms_last.name
             /\ models = ms_last.before.models
        ELSE /\ ~ms_last.ok
             /\ default_model = ms_last.before.default_model
             /\ config_default = ms_last.before.config_default
             /\ models = ms_last.before.models
\* a refused call after an accepted one
C20_Witness ==
    /\ ms_last.op = "set_default_model"
    /\ ~ms_last.ok
    /\ ms_last.name \notin RegisteredNames
    /\ default_model = "B"

(* the claims about single WorkflowState calls compare the state before a
   call with the state after it; ws_last' names the call of the step *)
\* what the claims call a workflow's record apart from its timestamps
SameRecord(before, after) ==
    /\ after.status = before.status
    /\ after.subtasks = before.subtasks
    /\ after.results = before.results
    /\ after.metadata = before.metadata

\* C21: create_workflow with an id that exists raises and leaves the
\* existing record unchanged; with a fresh id it creates a record with
\* status SUBMITTED, no subtasks and no results.
C21_CreateWorkflow ==
    [][ws_last'.op = "create_workflow" =>
         LET w == ws_last'.workflow_id IN
         IF w \in DOMAIN workflows
         THEN /\ ws_last'.raised
              /\ DOMAIN workflows' = DOMAIN workflows
              /\ \A v \in DOMAIN workflows : SameRecord(workflows[v], workflows'[v])
         ELSE /\ ~ws_last'.raised
              /\ w \in DOMAIN workflows'
              /\ workflows'[w].status = SUBMITTED
              /\ workflows'[w].subtasks = <<>>
              /\ \A t \in TaskIds : workflows'[w].results[t] = "absent"]_vars

\* a create_workflow call was refused for a workflow that has subtasks and
\* a recorded result
C21_Witness ==
    /\ ws_last.op = "create_workflow"
    /\ ws_last.raised
    /\ workflows[ws_last.workflow_id].subtasks # <<>>
    /\ Recorded(workflows[ws_last.workflow_id]) # {}

\* C22: add_task_to_workflow with an unknown workflow id raises and leaves
\* the records and the task-to-workflow mapping unchanged; with a known id
\* it appends the task id to that workflow's subtasks and
\* get_task_workflow(task id) is that workflow.
C22_AddTask ==
    [][ws_last'.op = "add_task_to_workflow" =>
         LET w == ws_last'.workflow_id
             t == ws_last'.task_id
         IN  IF w \notin DOMAIN workflows
             THEN /\ ws_last'.raised
                  /\ workflows' = workflows
                  /\ task_to_workflow' = task_to_workflow
             ELSE /\ ~ws_last'.raised
                  /\ workflows'[w].subtasks = Append(workflows[w].subtasks, t)
                  /\ get_task_workflow(task_to_workflow', t) = w]_vars

\* a task id was added to the second of two workflows after it had been
\* added to the first
C22_Witness ==
    /\ ws_last.op = "add_task_to_workflow"
    /\ ~ws_last.raised
    /\ get_task_workflow(task_to_workflow, ws_last.task_id) = ws_last.workflow_id
    /\ \E v \in DOMAIN workflows :
          /\ v # ws_last.workflow_id
          /\ ws_last.task_id \in SubtaskSet(workflows[v])

\* C23: update_task_status for a task id that no workflow is associated
\* with raises nothing and leaves every workflow's status, subtasks and
\* results unchanged.
C23_UnknownTaskDropped ==
    [][(/\ ws_last'.op = "update_task_status"
        /\ get_task_workflow(task_to_workflow, ws_last'.task_id) = NoWf)
         => /\ ~ws_last'.raised
            /\ DOMAIN workflows' = DOMAIN workflows
            /\ \A v \in DOMAIN workflows :
                  SameRecord(workflows[v], workflows'[v])]_vars

\* an outcome was given for a task id outside every workflow while a
\* workflow with an unrecorded subtask existed
C23_Witness ==
    /\ ws_last.op = "update_task_status"
    /\ truthy(ws_last.result)
    /\ get_task_workflow(task_to_workflow, ws_last.task_id) = NoWf
    /\ \E v \in DOMAIN workflows :
          \E t \in SubtaskSet(workflows[v]) : workflows[v].results[t] = "absent"

\* C24: update_task_status for a task id of a known workflow stores the
\* outcome it is given under that task id, whatever the outcome holds, and
\* changes no other workflow's record.
C24_OutcomeStored ==
    [][(/\ ws_last'.op = "update_task_status"
        /\ ws_last'.result \in Results
        /\ get_task_workflow(task_to_workflow, ws_last'.task_id) # NoWf)
         => LET t == ws_last'.task_id
                w == get_task_workflow(task_to_workflow, t)
            IN  /\ workflows'[w].results[t] = ws_last'.result
                /\ \A v \in DOMAIN workflows \ {w} :
                      SameRecord(workflows[v], workflows'[v])]_vars

(* the claims about the job callbacks compare a workflow's status before
   and after the step of a handler; last' names the handler *)
\* the step makes the status of workflow w the given one
Becomes(w, status) ==
    /\ w \in DOMAIN workflows
    /\ workflows[w].status # status
    /\ workflows'[w].status = status

\* the callback lists of the event were gone through for workflow w
FiredFor(handler, event, w) ==
    \E i \in 1..Len(handler.fired) : handler.fired[i] = <<event, w>>

\* C25: when recording a task's outcome makes its workflow COMPLETED, the
\* on_workflow_complete callbacks are fired for that workflow, in
\* _handle_result and in _handle_response alike.
C25_CompletedFires ==
    [][\A w \in WfIds :
         Becomes(w, COMPLETED) => FiredFor(last', "on_workflow_complete", w)]_vars

\* C26: when recording a task's outcome makes its workflow FAILED, the
\* on_workflow_failed callbacks are invoked with that workflow's id.
C26_FailedFires ==
    [][\A w \in WfIds :
         Becomes(w, FAILED) => FiredFor(last', "on_workflow_failed", w)]_vars

\* the Tasks in the queue, of all tiers
QueuedTasks ==
    UNION {{queues[p][i] : i \in 1..Len(queues[p])} : p \in Priority}
\* the Task submit_task has just queued for a task id
Submitted(task_id) == CHOOSE x \in QueuedTasks : x.task_id = task_id

\* C27: submit_task of a job of kind implement_system yields exactly three
\* subtasks, design, implement and verify in this order, each with the
\* job's id as parent and with both the job's requirements and the job's
\* constraints; a job of another kind yields exactly one subtask of that
\* kind with the job's payload.
C27_Decomposition ==
    last.op = "submit_task" =>
        LET w == next_wf - 1
            ids == workflows[w].subtasks
        IN  /\ \A i \in 1..Len(ids) : Submitted(ids[i]).parent_id = w
            /\ IF job_kind[w] = "implement_system"
               THEN /\ [i \in 1..Len(ids) |-> Submitted(ids[i]).task_type]
                        = <<"system_design", "implement_component",
                            "test_component">>
                    /\ \A i \in 1..Len(ids) :
                          {"requirements", "constraints"}
                              \subseteq payload_inherits(Submitted(ids[i]).payload)
               ELSE /\ [i \in 1..Len(ids) |-> Submitted(ids[i]).task_type]
                        = <<job_kind[w]>>
                    /\ payload_inherits(Submitted(ids[1]).payload) = {"payload"}

\* C28: the dispatch loop does not block on one dispatch: while a
\* dispatched task is suspended in its worker's execute_task and another
\* task is pending in the queue, the loop can take and dispatch the
\* pending task.
C28_LoopNotBlocked ==
    (loop = "running" /\ inflight # <<>> /\ ~empty(queues)) => ENABLED dispatch

\* the Tasks handed to a worker whose execute_task has not returned
InflightTasks == {inflight[i] : i \in 1..Len(inflight)}

\* C29: every Task pending in the queue or in dispatch that carries a
\* parent id refers to a workflow that exists and lists the task's id
\* among its subtasks, for the Tasks queued by submit_task and for the
\* Tasks re-enqueued by a retry.
C29_JobExistsForTask ==
    \A x \in QueuedTasks \cup InflightTasks :
        x.parent_id # NoWf =>
            /\ x.parent_id \in DOMAIN workflows
            /\ x.task_id \in SubtaskSet(workflows[x.parent_id])

\* a Task built by a retry is pending while a Task built by submit_task is
\* in dispatch
C29_Witness ==
    /\ \E x \in QueuedTasks : x.obj > 0 /\ x.parent_id # NoWf
    /\ \E x \in InflightTasks : x.obj = 0 /\ x.parent_id # NoWf

\* C30: the Task a retry re-enqueues is the Task that failed: same task
\* id, same parent, same task_type and same payload, so it goes to the
\* same agent type.
C30_RetryIsOriginal ==
    \A i \in 1..Len(last.requeued) :
        /\ last.requeued[i].task_id = last.task.task_id
        /\ last.requeued[i].parent_id = last.task.parent_id
        /\ last.requeued[i].task_type = last.task.task_type
        /\ last.requeued[i].payload = last.task.payload
        /\ determine_agent_type(last.requeued[i].task_type)
               = determine_agent_type(last.task.task_type)

\* the retries the workflows still grant their task ids
RECURSIVE RetriesLeft(_, _)
RetriesLeft(wf, t) ==
    IF t = 0 THEN 0
    ELSE (max_retries - wf.metadata.retry_count[t]) + RetriesLeft(wf, t - 1)
RECURSIVE AllRetriesLeft(_)
AllRetriesLeft(w) ==
    IF w = 0 THEN 0
    ELSE (IF w \in DOMAIN workflows THEN RetriesLeft(workflows[w], MaxTasks) ELSE 0)
         + AllRetriesLeft(w - 1)
\* the Tasks in the queue, counted
QueuedCount == Len(queues["high"]) + Len(queues["medium"]) + Len(queues["low"])
\* what process_tasks has left to do at most: a pending Task is taken and
\* then handled, and a retry granted puts one more Task
WorkLeft == 2 * QueuedCount + Len(inflight) + 2 * AllRetriesLeft(MaxWorkflows)
\* a step of process_tasks
ProcessStep == last'.op \in {"_execute_task", "_handle_error", "_handle_result"}

\* C31: process_tasks, run on finitely many pending tasks with no
\* submit_task meanwhile and workers that return or raise, terminates:
\* every step of it leaves less work (pending Tasks and retries still
\* granted), it dispatches a task id at most max_retries + 1 times, and it
\* does not end while a Task is pending.
C31_ProcessTasksTerminates ==
    /\ [](\A t \in TaskIds : hist[t].dispatches <= max_retries + 1)
    /\ [](WorkLeft >= 0)
    /\ [](~Drained => loop = "running")
    /\ [][ProcessStep => WorkLeft' < WorkLeft]_vars

\* process_tasks has ended on an empty queue after a task id had all its
\* max_retries + 1 attempts
C31_Witness ==
    /\ Drained
    /\ \E t \in TaskIds : hist[t].dispatches = max_retries + 1

C34_NoFailedWhileRetrying ==
    \A x \in QueuedTasks \cup InflightTasks :
        (x.obj > 0 /\ x.parent_id \in DOMAIN workflows)
            => workflows[x.parent_id].status # FAILED

\* C35: COMPLETED and FAILED are terminal: a workflow in one of them keeps
\* its status in every later step.
C35_TerminalStatus ==
    [][\A w \in DOMAIN workflows :
         workflows[w].status \in {COMPLETED, FAILED}
             => workflows'[w].status = workflows[w].status]_vars

\* C37: a dispatch whose worker returned a success outcome is not routed
\* through the failure path, even when a registered callback raises: the
\* success stays recorded, no on_task_failed callback fires, and the task
\* is neither counted as retried nor re-enqueued.
C37_SuccessNotFailed ==
    (last.op = "_handle_result" /\ last.outcome = "completed_result") =>
        /\ last.recorded = "completed_result"
        /\ ~FiredFor(last, "on_task_failed", last.task.task_id)
        /\ last.strategy = None
        /\ last.requeued = <<>>
        /\ ~Pending(last.task.task_id)

\* C38: the default pointer always names a registered profile:
\* default_model is a key of models in every state reachable from the
\* construction through register_model and set_default_model.
C38_DefaultRegistered == default_model \in RegisteredNames

\* C36: with submit_task of a multi-stage job suspended at its awaits
\* while the dispatch loop runs, the job is neither COMPLETED nor FAILED
\* and no job-completed callback list is gone through before all three
\* subtasks have been added to the job.
C36_NoEarlyJobEnd ==
    \A w \in DOMAIN workflows :
        (job_kind[w] = "implement_system" /\ Len(workflows[w].subtasks) < 3) =>
            /\ workflows[w].status \notin {COMPLETED, FAILED}
            /\ ~FiredFor(last, "on_workflow_complete", w)

\* the design subtask has been dispatched and has its result while
\* submit_task is suspended with two of the three subtasks added
C36_Witness ==
    \E w \in DOMAIN workflows :
        /\ submitting.workflow_id = w
        /\ Len(workflows[w].subtasks) = 2
        /\ workflows[w].results[workflows[w].subtasks[1]] # "absent"

\* the first dispatch of the task has been made: it is in dispatch or was
\* handled at least once
FirstDispatched(task_id) ==
    \/ hist[task_id].dispatches >= 1
    \/ \E x \in InflightTasks : x.task_id = task_id

====
